---- MODULE Spec2Model ----
(***************************************************************************)
(* The refinery (merge queue processing agent) of one rig: the persisted   *)
(* state file .gastown/refinery.json, the processes that call the          *)
(* Manager's Status, Start, Stop and Queue, and the liveness of those      *)
(* processes.  Strings that the code takes apart (branch names, lines of   *)
(* git output) are sequences of one-character strings; optional (pointer)  *)
(* fields are sequences of length 0 or 1; times are whole seconds.         *)
(***************************************************************************)
EXTENDS Integers, Sequences, FiniteSets, TLC

\* ---- bounds of the model
NProcs == 2
MaxTime == 1
MaxBranches == 3
MaxTokens == 6
MaxAge == 260000

Procs == 1..NProcs
\* the identifier of a process that exited before the first step (a crashed agent)
GonePid == NProcs + 1
Times == 0..MaxTime

\* ---- State, MRStatus and the errors
StateStopped == "stopped"
StateRunning == "running"
StatePaused == "paused"

MRPending == "pending"
MRProcessing == "processing"

NoErr == "nil"
ErrNotRunning == "refinery not running"
ErrAlreadyRunning == "refinery already running"
ErrNoQueue == "no items in queue"
\* errors of the os and encoding/json packages that the Manager passes on
ErrRead == "read error"
ErrDecode == "decode error"
ErrWrite == "write error"

\* ---- strings as sequences of characters
Polecat == <<"p", "o", "l", "e", "c", "a", "t", "/">>
Origin == <<"o", "r", "i", "g", "i", "n", "/">>
Arrow == <<"-", ">">>
Main == <<"m", "a", "i", "n">>

HasPrefix(s, pre) == Len(s) >= Len(pre) /\ SubSeq(s, 1, Len(pre)) = pre

TrimPrefix(s, pre) == IF HasPrefix(s, pre) THEN SubSeq(s, Len(pre) + 1, Len(s)) ELSE s

Contains(s, sub) ==
    \E i \in 1..(Len(s) - Len(sub) + 1) : SubSeq(s, i, i + Len(sub) - 1) = sub

IsSpace(c) == c \in {" ", "\t", "\r", "\n"}

TrimSpace(s) ==
    LET keep == {i \in 1..Len(s) : ~IsSpace(s[i])}
    IN  IF keep = {} THEN <<>>
        ELSE LET lo == CHOOSE i \in keep : \A j \in keep : i <= j
                 hi == CHOOSE i \in keep : \A j \in keep : j <= i
             IN  SubSeq(s, lo, hi)

\* index of the first "/" of s, 0 when there is none
FirstSlash(s) ==
    LET at == {i \in 1..Len(s) : s[i] = "/"}
    IN  IF at = {} THEN 0 ELSE CHOOSE i \in at : \A j \in at : i <= j

\* ---- records
ZeroStats ==
    [TotalMerged |-> 0, TotalFailed |-> 0, TotalSkipped |-> 0,
     TodayMerged |-> 0, TodayFailed |-> 0]

MergeRequest(id, branch, worker, issue, target, created, status) ==
    [ID |-> id, Branch |-> branch, Worker |-> worker, IssueID |-> issue,
     SwarmID |-> <<>>, TargetBranch |-> target, CreatedAt |-> created,
     Status |-> status, Error |-> <<>>]

Refinery(rigName, state, pid, startedAt, currentMR, lastMergeAt, stats) ==
    [RigName |-> rigName, State |-> state, PID |-> pid, StartedAt |-> startedAt,
     CurrentMR |-> currentMR, LastMergeAt |-> lastMergeAt, Stats |-> stats]

QueueItem(position, mr, age) == [Position |-> position, MR |-> mr, Age |-> age]

\* the zero value of Refinery, what the model keeps where there is no record
ZeroRefinery == Refinery("", "", 0, <<>>, <<>>, <<>>, ZeroStats)

\* ---- encoding/json under the structs' tags.  A JSON object is a record of its
\* keys, each <<>> (key not in the object) or <<value>>.
OmitEmpty(v, zero) == IF v = zero THEN <<>> ELSE <<v>>

\* a pointer field with omitempty: nil is left out
OmitNil(ptr) == IF ptr = <<>> THEN <<>> ELSE <<ptr[1]>>

Get(member, zero) == IF member = <<>> THEN zero ELSE member[1]

MarshalStats(st) ==
    [total_merged |-> <<st.TotalMerged>>, total_failed |-> <<st.TotalFailed>>,
     total_skipped |-> <<st.TotalSkipped>>, today_merged |-> <<st.TodayMerged>>,
     today_failed |-> <<st.TodayFailed>>]

UnmarshalStats(o) ==
    [TotalMerged |-> Get(o.total_merged, 0), TotalFailed |-> Get(o.total_failed, 0),
     TotalSkipped |-> Get(o.total_skipped, 0), TodayMerged |-> Get(o.today_merged, 0),
     TodayFailed |-> Get(o.today_failed, 0)]

MarshalMR(mr) ==
    [id |-> <<mr.ID>>, branch |-> <<mr.Branch>>, worker |-> <<mr.Worker>>,
     issue_id |-> <<mr.IssueID>>, swarm_id |-> OmitEmpty(mr.SwarmID, <<>>),
     target_branch |-> <<mr.TargetBranch>>, created_at |-> <<mr.CreatedAt>>,
     status |-> <<mr.Status>>, error |-> OmitEmpty(mr.Error, <<>>)]

UnmarshalMR(o) ==
    [ID |-> Get(o.id, <<>>), Branch |-> Get(o.branch, <<>>),
     Worker |-> Get(o.worker, <<>>), IssueID |-> Get(o.issue_id, <<>>),
     SwarmID |-> Get(o.swarm_id, <<>>), TargetBranch |-> Get(o.target_branch, <<>>),
     CreatedAt |-> Get(o.created_at, 0), Status |-> Get(o.status, ""),
     Error |-> Get(o.error, <<>>)]

MarshalIndent(ref) ==
    [rig_name |-> <<ref.RigName>>, state |-> <<ref.State>>,
     pid |-> OmitEmpty(ref.PID, 0), started_at |-> OmitNil(ref.StartedAt),
     current_mr |-> IF ref.CurrentMR = <<>> THEN <<>> ELSE <<MarshalMR(ref.CurrentMR[1])>>,
     last_merge_at |-> OmitNil(ref.LastMergeAt), stats |-> <<MarshalStats(ref.Stats)>>]

\* json.Unmarshal into the zero value of Refinery
Unmarshal(o) ==
    [RigName |-> Get(o.rig_name, ""), State |-> Get(o.state, ""),
     PID |-> Get(o.pid, 0), StartedAt |-> o.started_at,
     CurrentMR |-> IF o.current_mr = <<>> THEN <<>> ELSE <<UnmarshalMR(o.current_mr[1])>>,
     LastMergeAt |-> o.last_merge_at,
     Stats |-> IF o.stats = <<>> THEN ZeroStats ELSE UnmarshalStats(o.stats[1])]

\* ---- the state file: missing, unparsable, or holding a record.  A file that
\* holds a JSON object is kept as the record the object decodes to.
NoFile == [exists |-> FALSE, valid |-> FALSE, rec |-> ZeroRefinery]
CorruptFile == [exists |-> TRUE, valid |-> FALSE, rec |-> ZeroRefinery]
FileOf(ref) == [exists |-> TRUE, valid |-> TRUE, rec |-> Unmarshal(MarshalIndent(ref))]

VARIABLES
    rig,        \* m.rig.Name
    file,       \* the content of m.stateFile()
    pc,         \* where each process is: "idle"; between the load and the rest of
                \* a call ("Status", "StartF", "StartB", "Stop"); "run" (in run());
                \* "interrupted" (in run(), an interrupt from outside delivered);
                \* "signalled" (in run(), the interrupt of a Stop delivered); "gone"
    loaded,     \* the result of loadState a process holds between load and save
    now,        \* the last reading of the clock (time.Now()), in seconds
    last,       \* the call that has just returned, until its caller has taken the
                \* result: who, what, the file before it, the result, sss before it
    agents,     \* the processes that exist and whose Start succeeded, with no
                \* successful Stop since
    sss         \* stage 1: the last call was a successful background Start by pid,
                \* at time at; stage 2: the last two were that and a successful
                \* Stop by pid; stage 3: the last was a Status that returned no
                \* error, the one before it that Start, and pid ended between
                \* the two; else stage 0

vars == <<rig, file, pc, loaded, now, last, agents, sss>>

\* the processes that exist
Alive == {p \in Procs : pc[p] # "gone"}

\* ---- State Store
\* what the file system does during one call: nothing wrong ("ok"); the read of
\* an existing file fails ("unreadable"); MkdirAll or the open for writing fails,
\* nothing is written ("denied"); WriteFile fails after truncating ("partial")
IOOutcomes == {"ok", "unreadable", "denied", "partial"}

\* loadState with a missing file reported as a failed read
loadStateNotFoundFails(f, io, rigName) ==
    IF ~f.exists \/ io = "unreadable" THEN [err |-> ErrRead, ref |-> ZeroRefinery]
    ELSE IF ~f.valid THEN [err |-> ErrDecode, ref |-> ZeroRefinery]
    ELSE [err |-> NoErr, ref |-> f.rec]

loadState(f, io, rigName) ==
    IF ~f.exists
    THEN [err |-> NoErr, ref |-> Refinery(rigName, StateStopped, 0, <<>>, <<>>, <<>>, ZeroStats)]
    ELSE IF io = "unreadable" THEN [err |-> ErrRead, ref |-> ZeroRefinery]
    ELSE IF ~f.valid THEN [err |-> ErrDecode, ref |-> ZeroRefinery]
    ELSE [err |-> NoErr, ref |-> f.rec]

\* saveState that writes the new object's keys over the old object
saveStatePatches(f, ref, io) ==
    LET old == MarshalIndent(f.rec)
        new == MarshalIndent(ref)
        both == [k \in DOMAIN new |-> IF new[k] = <<>> THEN old[k] ELSE new[k]]
    IN  IF io = "denied" THEN [err |-> ErrWrite, file |-> f]
        ELSE IF io = "partial" THEN [err |-> ErrWrite, file |-> CorruptFile]
        ELSE [err |-> NoErr,
              file |-> IF f.exists /\ f.valid
                       THEN [exists |-> TRUE, valid |-> TRUE, rec |-> Unmarshal(both)]
                       ELSE FileOf(ref)]

saveState(f, ref, io) ==
    IF io = "denied" THEN [err |-> ErrWrite, file |-> f]
    ELSE IF io = "partial" THEN [err |-> ErrWrite, file |-> CorruptFile]
    ELSE [err |-> NoErr, file |-> FileOf(ref)]

\* ---- Liveness Checker
processExists(pid, live) == pid \in live

\* ---- Age/Display Formatting
Minute == 60
Hour == 3600
Day == 24 * Hour

\* int(x / y) for a float quotient: truncation toward zero
TruncDiv(x, y) == IF x >= 0 THEN x \div y ELSE -((-x) \div y)

\* formatAge that rounds to the nearest unit
formatAgeRounded(t, t0) ==
    LET d == t0 - t
    IN  IF d < Minute THEN [n |-> d, unit |-> "s ago"]
        ELSE IF d < Hour THEN [n |-> TruncDiv(2 * d + Minute, 2 * Minute), unit |-> "m ago"]
        ELSE IF d < Day THEN [n |-> TruncDiv(2 * d + Hour, 2 * Hour), unit |-> "h ago"]
        ELSE [n |-> TruncDiv(2 * d + Day, 2 * Day), unit |-> "d ago"]

\* formatAge(t) at time t0: the number and the unit of the label
formatAge(t, t0) ==
    LET d == t0 - t
    IN  IF d < Minute THEN [n |-> d, unit |-> "s ago"]
        ELSE IF d < Hour THEN [n |-> TruncDiv(d, Minute), unit |-> "m ago"]
        ELSE IF d < Day THEN [n |-> TruncDiv(d, Hour), unit |-> "h ago"]
        ELSE [n |-> TruncDiv(d, Day), unit |-> "d ago"]

\* ---- Branch Discoverer
\* dout: whether the git command ran without error, and the lines of its output
discoverWorkBranches(dout) ==
    IF ~dout.ok THEN [err |-> NoErr, branches |-> <<>>]
    ELSE LET trimmed == [i \in 1..Len(dout.lines) |-> TrimSpace(dout.lines[i])]
             Keep(b) == b # <<>> /\ ~Contains(b, Arrow)
         IN  [err |-> NoErr,
              branches |-> [i \in 1..Len(SelectSeq(trimmed, Keep)) |->
                                TrimPrefix(SelectSeq(trimmed, Keep)[i], Origin)]]

\* branchToMR with (.*) for the issue: a trailing "/" is accepted
branchToMRTrailingSlash(branch, t0) ==
    IF ~HasPrefix(branch, Polecat) THEN <<>>
    ELSE LET rest == SubSeq(branch, Len(Polecat) + 1, Len(branch))
             k == FirstSlash(rest)
             worker == IF k = 0 THEN rest ELSE SubSeq(rest, 1, k - 1)
             issueID == IF k = 0 THEN <<>> ELSE SubSeq(rest, k + 1, Len(rest))
         IN  IF worker = <<>> THEN <<>>
             ELSE <<MergeRequest([worker |-> worker, unix |-> t0], branch, worker,
                                 issueID, Main, t0, MRPending)>>

\* ^polecat/([^/]+)(?:/(.+))?$ : <<>> when there is no match, else <<mr>>
branchToMR(branch, t0) ==
    IF ~HasPrefix(branch, Polecat) THEN <<>>
    ELSE LET rest == SubSeq(branch, Len(Polecat) + 1, Len(branch))
             k == FirstSlash(rest)
             worker == IF k = 0 THEN rest ELSE SubSeq(rest, 1, k - 1)
             issueID == IF k = 0 THEN <<>> ELSE SubSeq(rest, k + 1, Len(rest))
         IN  IF worker = <<>> \/ (k > 0 /\ (issueID = <<>> \/ Contains(issueID, <<"\n">>)))
             THEN <<>>
             ELSE <<MergeRequest([worker |-> worker, unix |-> t0], branch, worker,
                                 issueID, Main, t0, MRPending)>>

\* ---- Lifecycle Controller: what each call does with the record it loaded.
\* ld is the result of loadState, live the processes that exist, io what the
\* file system does.  werr is what saveState returned.

\* Status with the correction returned but never written
StatusResultNoSave(f, ld, live, io) ==
    IF ld.err # NoErr
    THEN [err |-> ld.err, file |-> f, ref |-> <<>>, werr |-> NoErr]
    ELSE IF ld.ref.State = StateRunning /\ ld.ref.PID > 0 /\ ~processExists(ld.ref.PID, live)
    THEN [err |-> NoErr, file |-> f,
          ref |-> <<[ld.ref EXCEPT !.State = StateStopped, !.PID = 0]>>, werr |-> NoErr]
    ELSE [err |-> NoErr, file |-> f, ref |-> <<ld.ref>>, werr |-> NoErr]

\* Status that saves the record it loaded, corrected or not
StatusResultAlwaysSaves(f, ld, live, io) ==
    IF ld.err # NoErr
    THEN [err |-> ld.err, file |-> f, ref |-> <<>>, werr |-> NoErr]
    ELSE LET ref == IF ld.ref.State = StateRunning /\ ld.ref.PID > 0
                       /\ ~processExists(ld.ref.PID, live)
                    THEN [ld.ref EXCEPT !.State = StateStopped, !.PID = 0]
                    ELSE ld.ref
             sv == saveState(f, ref, io)
         IN  [err |-> NoErr, file |-> sv.file, ref |-> <<ref>>, werr |-> sv.err]

StatusResult(f, ld, live, io) ==
    IF ld.err # NoErr
    THEN [err |-> ld.err, file |-> f, ref |-> <<>>, werr |-> NoErr]
    ELSE IF ld.ref.State = StateRunning /\ ld.ref.PID > 0 /\ ~processExists(ld.ref.PID, live)
    THEN LET ref == [ld.ref EXCEPT !.State = StateStopped, !.PID = 0]
             sv == saveState(f, ref, io)
         IN  [err |-> NoErr, file |-> sv.file, ref |-> <<ref>>, werr |-> sv.err]
    ELSE [err |-> NoErr, file |-> f, ref |-> <<ld.ref>>, werr |-> NoErr]

\* Start that trusts any Running record's PID without the liveness check's
\* counterpart: it never refuses
StartResultNoCheck(f, ld, live, pid, t0, foreground, io) ==
    IF ld.err # NoErr
    THEN [err |-> ld.err, file |-> f, ref |-> <<>>, werr |-> NoErr, enter |-> FALSE]
    ELSE LET ref == [ld.ref EXCEPT !.State = StateRunning, !.StartedAt = <<t0>>, !.PID = pid]
             sv == saveState(f, ref, io)
         IN  IF sv.err # NoErr
             THEN [err |-> sv.err, file |-> sv.file, ref |-> <<>>, werr |-> sv.err,
                   enter |-> FALSE]
             ELSE [err |-> NoErr, file |-> sv.file, ref |-> <<ref>>, werr |-> NoErr,
                   enter |-> foreground]

\* Start that stamps the start time only when none is recorded
StartResultKeepsStamp(f, ld, live, pid, t0, foreground, io) ==
    IF ld.err # NoErr
    THEN [err |-> ld.err, file |-> f, ref |-> <<>>, werr |-> NoErr, enter |-> FALSE]
    ELSE IF ld.ref.State = StateRunning /\ ld.ref.PID > 0 /\ processExists(ld.ref.PID, live)
    THEN [err |-> ErrAlreadyRunning, file |-> f, ref |-> <<>>, werr |-> NoErr, enter |-> FALSE]
    ELSE LET ref == [ld.ref EXCEPT !.State = StateRunning,
                                   !.StartedAt = IF @ = <<>> THEN <<t0>> ELSE @,
                                   !.PID = pid]
             sv == saveState(f, ref, io)
         IN  IF sv.err # NoErr
             THEN [err |-> sv.err, file |-> sv.file, ref |-> <<>>, werr |-> sv.err,
                   enter |-> FALSE]
             ELSE [err |-> NoErr, file |-> sv.file, ref |-> <<ref>>, werr |-> NoErr,
                   enter |-> foreground]

\* Start that refuses every Running record, whoever it names
StartResultRefusesRunning(f, ld, live, pid, t0, foreground, io) ==
    IF ld.err # NoErr
    THEN [err |-> ld.err, file |-> f, ref |-> <<>>, werr |-> NoErr, enter |-> FALSE]
    ELSE IF ld.ref.State = StateRunning
    THEN [err |-> ErrAlreadyRunning, file |-> f, ref |-> <<>>, werr |-> NoErr, enter |-> FALSE]
    ELSE LET ref == [ld.ref EXCEPT !.State = StateRunning, !.StartedAt = <<t0>>, !.PID = pid]
             sv == saveState(f, ref, io)
         IN  IF sv.err # NoErr
             THEN [err |-> sv.err, file |-> sv.file, ref |-> <<>>, werr |-> sv.err,
                   enter |-> FALSE]
             ELSE [err |-> NoErr, file |-> sv.file, ref |-> <<ref>>, werr |-> NoErr,
                   enter |-> foreground]

\* Start that goes on to run() whatever saveState returned
StartResultRunsUnsaved(f, ld, live, pid, t0, foreground, io) ==
    IF ld.err # NoErr
    THEN [err |-> ld.err, file |-> f, ref |-> <<>>, werr |-> NoErr, enter |-> FALSE]
    ELSE IF ld.ref.State = StateRunning /\ ld.ref.PID > 0 /\ processExists(ld.ref.PID, live)
    THEN [err |-> ErrAlreadyRunning, file |-> f, ref |-> <<>>, werr |-> NoErr, enter |-> FALSE]
    ELSE LET ref == [ld.ref EXCEPT !.State = StateRunning, !.StartedAt = <<t0>>, !.PID = pid]
             sv == saveState(f, ref, io)
         IN  [err |-> IF foreground THEN NoErr ELSE sv.err, file |-> sv.file,
              ref |-> <<ref>>, werr |-> sv.err, enter |-> foreground]

\* Start that writes a new record for the rig instead of the one it loaded
StartResultFreshRecord(f, ld, live, pid, t0, foreground, io) ==
    IF ld.err # NoErr
    THEN [err |-> ld.err, file |-> f, ref |-> <<>>, werr |-> NoErr, enter |-> FALSE]
    ELSE IF ld.ref.State = StateRunning /\ ld.ref.PID > 0 /\ processExists(ld.ref.PID, live)
    THEN [err |-> ErrAlreadyRunning, file |-> f, ref |-> <<>>, werr |-> NoErr, enter |-> FALSE]
    ELSE LET ref == Refinery(ld.ref.RigName, StateRunning, pid, <<t0>>, <<>>, <<>>, ZeroStats)
             sv == saveState(f, ref, io)
         IN  IF sv.err # NoErr
             THEN [err |-> sv.err, file |-> sv.file, ref |-> <<>>, werr |-> sv.err,
                   enter |-> FALSE]
             ELSE [err |-> NoErr, file |-> sv.file, ref |-> <<ref>>, werr |-> NoErr,
                   enter |-> foreground]

\* Start that records a PID only in foreground mode
StartResultBackgroundNoPid(f, ld, live, pid, t0, foreground, io) ==
    IF ld.err # NoErr
    THEN [err |-> ld.err, file |-> f, ref |-> <<>>, werr |-> NoErr, enter |-> FALSE]
    ELSE IF ld.ref.State = StateRunning /\ ld.ref.PID > 0 /\ processExists(ld.ref.PID, live)
    THEN [err |-> ErrAlreadyRunning, file |-> f, ref |-> <<>>, werr |-> NoErr, enter |-> FALSE]
    ELSE LET ref == [ld.ref EXCEPT !.State = StateRunning, !.StartedAt = <<t0>>,
                                   !.PID = IF foreground THEN pid ELSE 0]
             sv == saveState(f, ref, io)
         IN  IF sv.err # NoErr
             THEN [err |-> sv.err, file |-> sv.file, ref |-> <<>>, werr |-> sv.err,
                   enter |-> FALSE]
             ELSE [err |-> NoErr, file |-> sv.file, ref |-> <<ref>>, werr |-> NoErr,
                   enter |-> foreground]

\* enter: the call reached run()
StartResult(f, ld, live, pid, t0, foreground, io) ==
    IF ld.err # NoErr
    THEN [err |-> ld.err, file |-> f, ref |-> <<>>, werr |-> NoErr, enter |-> FALSE]
    ELSE IF ld.ref.State = StateRunning /\ ld.ref.PID > 0 /\ processExists(ld.ref.PID, live)
    THEN [err |-> ErrAlreadyRunning, file |-> f, ref |-> <<>>, werr |-> NoErr, enter |-> FALSE]
    ELSE LET ref == [ld.ref EXCEPT !.State = StateRunning, !.StartedAt = <<t0>>, !.PID = pid]
             sv == saveState(f, ref, io)
         IN  IF sv.err # NoErr
             THEN [err |-> sv.err, file |-> sv.file, ref |-> <<>>, werr |-> sv.err,
                   enter |-> FALSE]
             ELSE [err |-> NoErr, file |-> sv.file, ref |-> <<ref>>, werr |-> NoErr,
                   enter |-> foreground]

\* Stop that refuses only a Stopped record
StopResultOnlyStopped(f, ld, pid, io) ==
    IF ld.err # NoErr
    THEN [err |-> ld.err, file |-> f, ref |-> <<>>, werr |-> NoErr, signalled |-> {}]
    ELSE IF ld.ref.State = StateStopped
    THEN [err |-> ErrNotRunning, file |-> f, ref |-> <<>>, werr |-> NoErr, signalled |-> {}]
    ELSE LET ref == [ld.ref EXCEPT !.State = StateStopped, !.PID = 0]
             sv == saveState(f, ref, io)
         IN  [err |-> sv.err, file |-> sv.file,
              ref |-> IF sv.err = NoErr THEN <<ref>> ELSE <<>>, werr |-> sv.err,
              signalled |-> IF ld.ref.PID > 0 /\ ld.ref.PID # pid THEN {ld.ref.PID} ELSE {}]

\* Stop that signals whatever PID is recorded, its caller's too
StopResultSignalsAny(f, ld, pid, io) ==
    IF ld.err # NoErr
    THEN [err |-> ld.err, file |-> f, ref |-> <<>>, werr |-> NoErr, signalled |-> {}]
    ELSE IF ld.ref.State # StateRunning
    THEN [err |-> ErrNotRunning, file |-> f, ref |-> <<>>, werr |-> NoErr, signalled |-> {}]
    ELSE LET ref == [ld.ref EXCEPT !.State = StateStopped, !.PID = 0]
             sv == saveState(f, ref, io)
         IN  [err |-> sv.err, file |-> sv.file,
              ref |-> IF sv.err = NoErr THEN <<ref>> ELSE <<>>, werr |-> sv.err,
              signalled |-> IF ld.ref.PID > 0 THEN {ld.ref.PID} ELSE {}]

\* signalled: the identifiers proc.Signal(os.Interrupt) was called on
StopResult(f, ld, pid, io) ==
    IF ld.err # NoErr
    THEN [err |-> ld.err, file |-> f, ref |-> <<>>, werr |-> NoErr, signalled |-> {}]
    ELSE IF ld.ref.State # StateRunning
    THEN [err |-> ErrNotRunning, file |-> f, ref |-> <<>>, werr |-> NoErr, signalled |-> {}]
    ELSE LET ref == [ld.ref EXCEPT !.State = StateStopped, !.PID = 0]
             sv == saveState(f, ref, io)
         IN  [err |-> sv.err, file |-> sv.file,
              ref |-> IF sv.err = NoErr THEN <<ref>> ELSE <<>>, werr |-> sv.err,
              signalled |-> IF ld.ref.PID > 0 /\ ld.ref.PID # pid THEN {ld.ref.PID} ELSE {}]

\* Pending that numbers by place in the listing, rejected names included
RECURSIVE PendingByIndex(_, _, _)
PendingByIndex(branches, pos, t0) ==
    IF branches = <<>> THEN <<>>
    ELSE LET mr == branchToMR(Head(branches), t0)
         IN  (IF mr # <<>>
              THEN <<QueueItem(pos, mr[1], formatAge(mr[1].CreatedAt, t0))>>
              ELSE <<>>) \o PendingByIndex(Tail(branches), pos + 1, t0)

\* the items after the current one: one per branch that branchToMR accepts
RECURSIVE Pending(_, _, _)
Pending(branches, pos, t0) ==
    IF branches = <<>> THEN <<>>
    ELSE LET mr == branchToMR(Head(branches), t0)
         IN  IF mr # <<>>
             THEN <<QueueItem(pos, mr[1], formatAge(mr[1].CreatedAt, t0))>>
                      \o Pending(Tail(branches), pos + 1, t0)
             ELSE Pending(Tail(branches), pos, t0)

\* Queue that leaves out a discovered branch that is the current request's branch
QueueResultDedup(f, dout, io, rigName, t0) ==
    LET disc == discoverWorkBranches(dout)
        ld == loadState(f, io, rigName)
        cur == ld.ref.CurrentMR
        fresh == SelectSeq(disc.branches, LAMBDA b : cur = <<>> \/ b # cur[1].Branch)
    IN  IF ld.err # NoErr THEN [err |-> ld.err, items |-> <<>>, lerr |-> ld.err]
        ELSE [err |-> NoErr, lerr |-> NoErr,
              items |->
                  (IF cur # <<>>
                   THEN <<QueueItem(0, cur[1], formatAge(cur[1].CreatedAt, t0))>>
                   ELSE <<>>)
                  \o Pending(fresh, 1, t0)]

\* Queue that reports an empty queue as ErrNoQueue
QueueResultNoQueue(f, dout, io, rigName, t0) ==
    LET disc == discoverWorkBranches(dout)
        ld == loadState(f, io, rigName)
        items == (IF ld.ref.CurrentMR # <<>>
                  THEN <<QueueItem(0, ld.ref.CurrentMR[1],
                                   formatAge(ld.ref.CurrentMR[1].CreatedAt, t0))>>
                  ELSE <<>>)
                 \o Pending(disc.branches, 1, t0)
    IN  IF ld.err # NoErr THEN [err |-> ld.err, items |-> <<>>, lerr |-> ld.err]
        ELSE IF items = <<>> THEN [err |-> ErrNoQueue, items |-> <<>>, lerr |-> NoErr]
        ELSE [err |-> NoErr, lerr |-> NoErr, items |-> items]

QueueResult(f, dout, io, rigName, t0) ==
    LET disc == discoverWorkBranches(dout)
        ld == loadState(f, io, rigName)
    IN  IF disc.err # NoErr THEN [err |-> disc.err, items |-> <<>>, lerr |-> NoErr]
        ELSE IF ld.err # NoErr THEN [err |-> ld.err, items |-> <<>>, lerr |-> ld.err]
        ELSE [err |-> NoErr, lerr |-> NoErr,
              items |->
                  (IF ld.ref.CurrentMR # <<>>
                   THEN <<QueueItem(0, ld.ref.CurrentMR[1],
                                    formatAge(ld.ref.CurrentMR[1].CreatedAt, t0))>>
                   ELSE <<>>)
                  \o Pending(disc.branches, 1, t0)]

\* ---- the states the program starts from
RigNames == {"gastown", "beads"}

SomeStats ==
    [TotalMerged |-> 3, TotalFailed |-> 1, TotalSkipped |-> 1,
     TodayMerged |-> 1, TodayFailed |-> 0]

\* a merge request that is being processed
SomeMR ==
    MergeRequest([worker |-> <<"w">>, unix |-> 0], Polecat \o <<"w", "/", "i">>,
                 <<"w">>, <<"i">>, Main, 0, MRProcessing)

\* the data model's invariant on a record (spec section 3)
RecordOK(ref) ==
    ref.State = StateStopped => (ref.CurrentMR = <<>> /\ ref.PID = 0)

\* records of an agent that never merged anything, and of one that did
InitRecords ==
    {ref \in
        {Refinery("gastown", st, pid, <<>>, <<>>, <<>>, ZeroStats) :
            st \in {StateStopped, StateRunning, StatePaused}, pid \in {0, 1, GonePid}}
        \cup
        {Refinery("gastown", st, pid, <<0>>, mr, <<0>>, SomeStats) :
            st \in {StateStopped, StateRunning, StatePaused}, pid \in {0, 1, GonePid},
            mr \in {<<>>, <<SomeMR>>}} :
        RecordOK(ref)}

NoSeq == [stage |-> 0, pid |-> 0, at |-> 0]

\* branches: what discoverWorkBranches returned to a Queue, or the name given
\* to branchToMR; mr: what branchToMR returned; age: the seconds that passed
\* since the time given to formatAge, and what formatAge returned; signalled:
\* the identifiers a Stop called proc.Signal(os.Interrupt) on
NoCall ==
    [op |-> "none", pid |-> 0, fg |-> FALSE, fault |-> NoErr, err |-> NoErr,
     ref |-> <<>>, items |-> <<>>, pre |-> NoFile, seq |-> NoSeq,
     branches |-> <<>>, mr |-> <<>>, age |-> <<>>, signalled |-> {}]

NoLoad == [err |-> NoErr, ref |-> ZeroRefinery]

Init ==
    /\ \/ rig \in RigNames /\ file = NoFile
       \/ rig = "gastown" /\ file \in {CorruptFile} \cup {FileOf(ref) : ref \in InitRecords}
    /\ pc = [p \in Procs |-> "idle"]
    /\ loaded = [p \in Procs |-> NoLoad]
    /\ now = 0
    /\ last = NoCall
    /\ agents = {}
    /\ sss = NoSeq

\* a rig without a state file: where the functions that read no file start
InitNoFile ==
    /\ rig = "gastown"
    /\ file = NoFile
    /\ pc = [p \in Procs |-> "idle"]
    /\ loaded = [p \in Procs |-> NoLoad]
    /\ now = 0
    /\ last = NoCall
    /\ agents = {}
    /\ sss = NoSeq

\* ---- bookkeeping of the calls made
\* the failure that happened inside a call: of the load, else of the write
Fault(ld, werr) == IF ld.err # NoErr THEN ld.err ELSE werr

Call(op, p, fg, fault, err, ref, items) ==
    [NoCall EXCEPT !.op = op, !.pid = p, !.fg = fg, !.fault = fault, !.err = err,
                   !.ref = ref, !.items = items, !.pre = file, !.seq = sss]

\* ---- the calls, from the record loaded to the return
StatusDo(p, ld, io) ==
    LET r == StatusResult(file, ld, Alive, io)
    IN  /\ file' = r.file
        /\ pc' = [pc EXCEPT ![p] = "idle"]
        /\ loaded' = [loaded EXCEPT ![p] = NoLoad]
        /\ last' = Call("Status", p, FALSE, Fault(ld, r.werr), r.err, r.ref, <<>>)
        /\ sss' = IF r.err = NoErr /\ sss.stage = 1 /\ pc[sss.pid] = "gone"
                  THEN [sss EXCEPT !.stage = 3]
                  ELSE NoSeq
        /\ UNCHANGED <<rig, now, agents>>

\* what time.Now() may return: the clock does not go back
Readings == {t \in Times : now <= t /\ t <= now + 1}

StartDo(p, foreground, ld, io, t0) ==
    LET r == StartResult(file, ld, Alive, p, t0, foreground, io)
    IN  /\ file' = r.file
        /\ now' = IF ld.err = NoErr /\ r.err # ErrAlreadyRunning THEN t0 ELSE now
        /\ pc' = [pc EXCEPT ![p] = IF r.enter THEN "run" ELSE "idle"]
        /\ loaded' = [loaded EXCEPT ![p] = NoLoad]
        /\ last' = Call("Start", p, foreground, Fault(ld, r.werr), r.err, r.ref, <<>>)
        /\ agents' = IF r.err = NoErr THEN agents \cup {p} ELSE agents
        /\ sss' = IF r.err = NoErr /\ ~foreground
                  THEN [stage |-> 1, pid |-> p, at |-> t0]
                  ELSE NoSeq
        /\ UNCHANGED rig

\* the interrupt reaches a process in run(); one that is not in run() ends
\* with Exit, like any process
Signal(pcs, pids) ==
    [q \in Procs |-> IF q \in pids /\ pcs[q] = "run" THEN "signalled" ELSE pcs[q]]

StopDo(p, ld, io) ==
    LET r == StopResult(file, ld, p, io)
    IN  /\ file' = r.file
        /\ pc' = Signal([pc EXCEPT ![p] = "idle"], r.signalled)
        /\ loaded' = [loaded EXCEPT ![p] = NoLoad]
        /\ last' = [Call("Stop", p, FALSE, Fault(ld, r.werr), r.err, r.ref, <<>>)
                        EXCEPT !.signalled = r.signalled]
        /\ agents' = IF r.err = NoErr THEN {} ELSE agents
        /\ sss' = IF r.err = NoErr /\ sss.stage = 1 /\ sss.pid = p
                  THEN [sss EXCEPT !.stage = 2]
                  ELSE NoSeq
        /\ UNCHANGED <<rig, now>>

\* ---- the calls, each as one step
Status(p) ==
    /\ pc[p] = "idle" /\ last = NoCall
    /\ \E io \in IOOutcomes : StatusDo(p, loadState(file, io, rig), io)

Start(p, foreground) ==
    /\ pc[p] = "idle" /\ last = NoCall
    /\ \E io \in IOOutcomes, t0 \in Readings :
         StartDo(p, foreground, loadState(file, io, rig), io, t0)

Stop(p) ==
    /\ pc[p] = "idle" /\ last = NoCall
    /\ \E io \in IOOutcomes : StopDo(p, loadState(file, io, rig), io)

\* what git printed: lines of the remote branch listing
StdoutLines ==
    { <<" ", " ">> \o Origin \o Polecat \o <<"w", "/", "i">>,
      <<" ", " ">> \o Origin \o Polecat,
      <<" ", " ">> \o Origin \o <<"H", "E", "A", "D", " ">> \o Arrow \o <<" ">> \o Origin \o Main }

\* the outcomes of the git command: it fails, or prints some lines
DiscoverOutcomes ==
    {[ok |-> FALSE, lines |-> <<>>], [ok |-> TRUE, lines |-> <<>>]}
        \cup {[ok |-> TRUE, lines |-> <<l>>] : l \in StdoutLines}

QueueDo(p, io, dout, t0) ==
    LET r == QueueResult(file, dout, io, rig, t0)
    IN  /\ last' = [Call("Queue", p, FALSE,
                          IF ~dout.ok THEN "discovery error" ELSE r.lerr,
                          r.err, <<>>, r.items)
                        EXCEPT !.branches = discoverWorkBranches(dout).branches]
        /\ now' = IF r.err = NoErr THEN t0 ELSE now
        /\ sss' = NoSeq
        /\ UNCHANGED <<rig, file, pc, loaded, agents>>

Queue(p) ==
    /\ pc[p] = "idle" /\ last = NoCall
    /\ \E io \in {"ok", "unreadable"}, dout \in DiscoverOutcomes, t0 \in Readings :
         QueueDo(p, io, dout, t0)

\* Queue over longer listings: up to MaxBranches lines, well-formed names (one
\* of them the branch of SomeMR), malformed names and the HEAD line
GitLines == StdoutLines \cup {<<" ", " ">> \o Origin \o Polecat \o <<"v">>}

GitOutputs == UNION {[1..n -> GitLines] : n \in 0..MaxBranches}

QueueListing(p) ==
    /\ pc[p] = "idle" /\ last = NoCall
    /\ \E lines \in GitOutputs, t0 \in Readings :
         QueueDo(p, "ok", [ok |-> TRUE, lines |-> lines], t0)

\* ---- the calls, in two steps: another process may act between the load and
\* the rest of the call
StatusLoad(p) ==
    /\ pc[p] = "idle" /\ last = NoCall
    /\ \E io \in {"ok", "unreadable"} :
         loaded' = [loaded EXCEPT ![p] = loadState(file, io, rig)]
    /\ pc' = [pc EXCEPT ![p] = "Status"]
    /\ UNCHANGED last
    /\ UNCHANGED <<rig, file, now, agents, sss>>

StatusFinish(p) ==
    /\ pc[p] = "Status" /\ last = NoCall
    /\ \E io \in {"ok", "denied", "partial"} : StatusDo(p, loaded[p], io)

StartLoad(p, foreground) ==
    /\ pc[p] = "idle" /\ last = NoCall
    /\ \E io \in {"ok", "unreadable"} :
         loaded' = [loaded EXCEPT ![p] = loadState(file, io, rig)]
    /\ pc' = [pc EXCEPT ![p] = IF foreground THEN "StartF" ELSE "StartB"]
    /\ UNCHANGED last
    /\ UNCHANGED <<rig, file, now, agents, sss>>

StartFinish(p) ==
    /\ pc[p] \in {"StartF", "StartB"} /\ last = NoCall
    /\ \E io \in {"ok", "denied", "partial"}, t0 \in Readings :
         StartDo(p, pc[p] = "StartF", loaded[p], io, t0)

StopLoad(p) ==
    /\ pc[p] = "idle" /\ last = NoCall
    /\ \E io \in {"ok", "unreadable"} :
         loaded' = [loaded EXCEPT ![p] = loadState(file, io, rig)]
    /\ pc' = [pc EXCEPT ![p] = "Stop"]
    /\ UNCHANGED last
    /\ UNCHANGED <<rig, file, now, agents, sss>>

StopFinish(p) ==
    /\ pc[p] = "Stop" /\ last = NoCall
    /\ \E io \in {"ok", "denied", "partial"} : StopDo(p, loaded[p], io)

\* ---- the environment
\* an interrupt from outside (Ctrl+C) reaches a process in run()
Interrupt(p) ==
    /\ pc[p] = "run" /\ last = NoCall
    /\ pc' = [pc EXCEPT ![p] = "interrupted"]
    /\ UNCHANGED last
    /\ UNCHANGED <<rig, file, loaded, now, agents, sss>>

\* the process acts on the interrupt: no handler is installed, so it ends
Terminate(p) ==
    /\ pc[p] \in {"interrupted", "signalled"} /\ last = NoCall
    /\ pc' = [pc EXCEPT ![p] = "gone"]
    /\ agents' = agents \ {p}
    /\ UNCHANGED last
    /\ UNCHANGED <<rig, file, loaded, now, sss>>

\* the process ends for any other reason (it returns, crashes or is killed)
Exit(p) ==
    /\ pc[p] \in {"idle", "run"} /\ last = NoCall
    /\ pc' = [pc EXCEPT ![p] = "gone"]
    /\ agents' = agents \ {p}
    /\ UNCHANGED last
    /\ UNCHANGED <<rig, file, loaded, now, sss>>

\* the caller takes the result of its call
Return ==
    /\ last # NoCall
    /\ last' = NoCall
    /\ UNCHANGED <<rig, file, pc, loaded, now, agents, sss>>

\* calls made one after the other, by any of the processes
Next ==
    \/ \E p \in Procs : Status(p)
    \/ \E p \in Procs, foreground \in BOOLEAN : Start(p, foreground)
    \/ \E p \in Procs : Stop(p)
    \/ \E p \in Procs : Queue(p)
    \/ \E p \in Procs : Interrupt(p)
    \/ \E p \in Procs : Terminate(p)
    \/ \E p \in Procs : Exit(p)
    \/ Return

Spec == Init /\ [][Next]_vars

\* calls of different processes interleaved between load and save
ConcNext ==
    \/ \E p \in Procs : StatusLoad(p)
    \/ \E p \in Procs : StatusFinish(p)
    \/ \E p \in Procs, foreground \in BOOLEAN : StartLoad(p, foreground)
    \/ \E p \in Procs : StartFinish(p)
    \/ \E p \in Procs : StopLoad(p)
    \/ \E p \in Procs : StopFinish(p)
    \/ \E p \in Procs : Terminate(p)
    \/ \E p \in Procs : Exit(p)
    \/ Return

ConcSpec == Init /\ [][ConcNext]_vars

\* branchToMR alone, over names put together from up to MaxTokens pieces
Tokens == {Polecat, <<"/">>, <<"w">>, <<"i">>}

RECURSIVE Concat(_)
Concat(ts) == IF ts = <<>> THEN <<>> ELSE Head(ts) \o Concat(Tail(ts))

BranchNames == {Concat(ts) : ts \in UNION {[1..n -> Tokens] : n \in 0..MaxTokens}}

ConvertBranch ==
    /\ last = NoCall
    /\ \E branch \in BranchNames, t0 \in Readings :
         /\ last' = [NoCall EXCEPT !.op = "branchToMR", !.branches = <<branch>>,
                                   !.mr = branchToMR(branch, t0)]
         /\ now' = t0
    /\ UNCHANGED <<rig, file, pc, loaded, agents, sss>>

BranchNext ==
    \/ ConvertBranch
    \/ Return

BranchSpec == InitNoFile /\ [][BranchNext]_vars

\* saveState alone, of records with their optional fields set and not set,
\* over whatever the file held before
FullMR == [SomeMR EXCEPT !.SwarmID = <<"s">>, !.Error = <<"e">>]

StoreRecords ==
    {Refinery(rn, st, pid, sa, mr, lm, stats) :
        rn \in {"gastown"}, st \in {StateStopped, StateRunning, StatePaused},
        pid \in {0, 1}, sa \in {<<>>, <<MaxTime>>},
        mr \in {<<>>, <<SomeMR>>, <<FullMR>>}, lm \in {<<>>, <<0>>},
        stats \in {ZeroStats, SomeStats}}

SaveState(p) ==
    /\ pc[p] = "idle" /\ last = NoCall
    /\ \E ref \in StoreRecords, io \in {"ok", "denied", "partial"} :
         LET sv == saveState(file, ref, io)
         IN  /\ file' = sv.file
             /\ last' = [NoCall EXCEPT !.op = "saveState", !.pid = p, !.fault = sv.err,
                                       !.err = sv.err, !.ref = <<ref>>, !.pre = file]
    /\ UNCHANGED <<rig, pc, loaded, now, agents, sss>>

StoreNext ==
    \/ \E p \in Procs : SaveState(p)
    \/ Return

StoreSpec == Init /\ [][StoreNext]_vars

\* formatAge alone, of a time up to MaxAge seconds before the clock's reading
Ages == 0..MaxAge

FormatAge ==
    /\ last = NoCall
    /\ \E d \in Ages :
         last' = [NoCall EXCEPT !.op = "formatAge",
                                !.age = <<[d |-> d, label |-> formatAge(now - d, now)]>>]
    /\ UNCHANGED <<rig, file, pc, loaded, now, agents, sss>>

AgeNext ==
    \/ FormatAge
    \/ Return

AgeSpec == InitNoFile /\ [][AgeNext]_vars

\* Queue calls alone, over every listing of up to MaxBranches lines
QueueNext ==
    \/ \E p \in Procs : QueueListing(p)
    \/ Return

QueueSpec == Init /\ [][QueueNext]_vars

\* ---- the claims

\* what a call on file f loads when nothing fails
LoadedFrom(f) == loadState(f, "ok", rig).ref

IsRecord(f) == f.exists /\ f.valid

C2_OneAgent == Cardinality(agents) <= 1

\* C3: a Status, in which nothing fails, on a Running record whose PID > 0
\* names no existing process returns a record Stopped with PID 0, and the
\* state file read again holds a record Stopped with PID 0.
C3_Case ==
    /\ last.op = "Status" /\ last.fault = NoErr
    /\ IsRecord(last.pre) /\ last.pre.rec.State = StateRunning
    /\ last.pre.rec.PID > 0 /\ ~processExists(last.pre.rec.PID, Alive)

C3_StatusHeals ==
    C3_Case =>
        /\ last.err = NoErr /\ Len(last.ref) = 1
        /\ last.ref[1].State = StateStopped /\ last.ref[1].PID = 0
        /\ loadState(file, "ok", rig).err = NoErr
        /\ LoadedFrom(file).State = StateStopped /\ LoadedFrom(file).PID = 0

C3_Witness == C3_Case /\ IsRecord(file) /\ file.rec.State = StateStopped /\ file # last.pre

\* C4: a process that is in run() and gets an interrupt from outside does not
\* end before a Stopped record is in the state file: when it ends, the file
\* holds a record with state Stopped.
C4_StoppedBeforeExit ==
    [][\A p \in Procs :
          (pc[p] = "interrupted" /\ pc'[p] = "gone")
              => (IsRecord(file') /\ file'.rec.State = StateStopped)]_vars

\* C5: every record with state Stopped, in the state file or returned by a
\* call, has no current merge request and no PID.
StoppedIsClean(ref) == ref.State = StateStopped => (ref.CurrentMR = <<>> /\ ref.PID = 0)

C5_StoppedIsClean ==
    /\ IsRecord(file) => StoppedIsClean(file.rec)
    /\ \A i \in 1..Len(last.ref) : StoppedIsClean(last.ref[i])

\* C6: a Stop in which nothing fails returns ErrNotRunning exactly when the
\* record it loaded is not Running, and then the state file is as it was;
\* when the record is Running it returns no error and the file holds the
\* record Stopped with PID 0, whether or not the recorded process exists.
C6_Case == last.op = "Stop" /\ last.fault = NoErr

C6_StopNotRunning ==
    C6_Case =>
        /\ (last.err = ErrNotRunning) <=> (LoadedFrom(last.pre).State # StateRunning)
        /\ LoadedFrom(last.pre).State # StateRunning => file = last.pre
        /\ LoadedFrom(last.pre).State = StateRunning =>
              /\ last.err = NoErr
              /\ IsRecord(file) /\ file.rec.State = StateStopped /\ file.rec.PID = 0

\* a Paused record was refused
C6_Witness ==
    /\ C6_Case /\ last.err = ErrNotRunning
    /\ LoadedFrom(last.pre).State = StatePaused /\ file = last.pre

\* C7: after a successful background Start by p and then a successful Stop by
\* p (a Stop by p in which nothing fails is successful there), a Start by p in
\* which nothing fails returns no error (or enters run()), and the file holds
\* a Running record with PID p whose start time is the time of this Start.
C7_StartStopStart ==
    /\ (last.op = "Stop" /\ last.fault = NoErr /\ last.seq.stage = 1 /\ last.seq.pid = last.pid)
          => last.err = NoErr
    /\ (last.op = "Start" /\ last.fault = NoErr /\ last.seq.stage = 2 /\ last.seq.pid = last.pid)
          => /\ last.err = NoErr
             /\ IsRecord(file) /\ file.rec.State = StateRunning
             /\ file.rec.PID = last.pid /\ file.rec.StartedAt = <<now>>

\* the second Start was made later than the first and stamped its own time
C7_Witness ==
    /\ last.op = "Start" /\ last.err = NoErr
    /\ last.seq.stage = 2 /\ last.seq.pid = last.pid
    /\ last.seq.at < now /\ file.rec.StartedAt = <<now>>

\* C8: with no state file, Status returns no error and a record Stopped with
\* no PID and no current merge request, whatever the rig's name, also when
\* the file system would fail a read or a write.
C8_Case == last.op = "Status" /\ ~last.pre.exists

C8_StatusWithoutFile ==
    C8_Case =>
        /\ last.err = NoErr /\ Len(last.ref) = 1
        /\ last.ref[1].State = StateStopped /\ last.ref[1].PID = 0
        /\ last.ref[1].CurrentMR = <<>>

C8_Witness == C8_Case /\ rig = "beads" /\ last.err = NoErr /\ last.ref # <<>>

\* C9: a call in which a read of the existing state file, its decoding, or a
\* write of the state file failed returns an error.
C9_FailuresReturned ==
    last.fault \in {ErrRead, ErrDecode, ErrWrite} => last.err # NoErr

\* C10: a Queue whose git command failed returns an error.
C10_DiscoveryFailureReturned ==
    (last.op = "Queue" /\ last.fault = "discovery error") => last.err # NoErr

\* C11: a Queue that returns no error returns, first, exactly when the loaded
\* record has a current merge request, one item at position 0 holding it; then
\* one item per discovered branch that branchToMR accepts, in discovery order,
\* at positions 1, 2, ... with no gap; no other item has position 0.
Accepted(branches) == SelectSeq(branches, LAMBDA b : branchToMR(b, 0) # <<>>)

C11_Case == last.op = "Queue" /\ last.err = NoErr

C11_QueueOrder ==
    C11_Case =>
        LET cur == LoadedFrom(last.pre).CurrentMR
            n0 == Len(cur)
            acc == Accepted(last.branches)
        IN  /\ Len(last.items) = n0 + Len(acc)
            /\ n0 = 1 => (last.items[1].Position = 0 /\ last.items[1].MR = cur[1])
            /\ \A i \in 1..Len(acc) :
                  /\ last.items[n0 + i].Position = i
                  /\ last.items[n0 + i].MR.Branch = acc[i]
            /\ \A i \in 1..Len(last.items) :
                  last.items[i].Position = 0 => (i = 1 /\ n0 = 1)

\* a current request, then a malformed name between two accepted ones
C11_Witness ==
    /\ C11_Case /\ Len(last.items) = 3 /\ Len(last.branches) = 3
    /\ last.items[1].Position = 0
    /\ branchToMR(last.branches[2], 0) = <<>>
    /\ last.items[3].Position = 2 /\ last.items[3].MR.Branch = last.branches[3]
    /\ last.items[2].MR.Branch # last.items[3].MR.Branch

\* C12: Queue suppresses no duplicate: the result has one item for the current
\* request, if there is one, plus one per accepted discovered branch; a
\* discovered branch with the name of the current request's branch is in the
\* result at position 0 and again as a pending item.
C12_NoDuplicateSuppression ==
    (last.op = "Queue" /\ last.err = NoErr) =>
        LET cur == LoadedFrom(last.pre).CurrentMR
            acc == Accepted(last.branches)
            Same(mr) == mr.Branch = cur[1].Branch
        IN  /\ Len(last.items) = (IF cur # <<>> THEN 1 ELSE 0) + Len(acc)
            /\ (cur # <<>> /\ \E j \in 1..Len(acc) : acc[j] = cur[1].Branch) =>
                  /\ Same(last.items[1].MR) /\ last.items[1].Position = 0
                  /\ \E i \in 2..Len(last.items) :
                        Same(last.items[i].MR) /\ last.items[i].Position >= 1

\* the current request's branch was discovered again, and both are returned
C12_Witness ==
    /\ last.op = "Queue" /\ last.err = NoErr
    /\ LoadedFrom(last.pre).CurrentMR # <<>>
    /\ last.branches = <<LoadedFrom(last.pre).CurrentMR[1].Branch>>
    /\ Len(last.items) = 2
    /\ last.items[2].MR.Branch = last.items[1].MR.Branch

\* C13: branchToMR returns a request exactly for the names polecat/<worker>
\* and polecat/<worker>/<issue>, worker not empty and without "/", issue not
\* empty (it may hold "/"); the request has that worker, that issue (empty
\* when there is none), the name as its branch, target main and status
\* pending.  Every other name gives no request.
SlashFree(s) == \A i \in 1..Len(s) : s[i] # "/"

\* the ways to read name as polecat/<worker>[/<issue>]
Readings13(name) ==
    {wi \in {[worker |-> SubSeq(name, Len(Polecat) + 1, k),
              issue |-> SubSeq(name, k + 2, Len(name)),
              whole |-> k = Len(name)] : k \in (Len(Polecat) + 1)..Len(name)} :
        /\ HasPrefix(name, Polecat) /\ SlashFree(wi.worker)
        /\ \/ wi.whole
           \/ name[Len(Polecat) + Len(wi.worker) + 1] = "/" /\ wi.issue # <<>>}

C13_Case == last.op = "branchToMR"

C13_BranchForm ==
    C13_Case =>
        LET name == last.branches[1]
        IN  /\ (last.mr # <<>>) <=> (Readings13(name) # {})
            /\ last.mr # <<>> =>
                  /\ [worker |-> last.mr[1].Worker, issue |-> last.mr[1].IssueID,
                       whole |-> last.mr[1].IssueID = <<>>] \in Readings13(name)
                  /\ last.mr[1].Branch = name
                  /\ last.mr[1].TargetBranch = Main
                  /\ last.mr[1].Status = MRPending

\* a name whose issue holds a "/" was converted
C13_Witness ==
    /\ C13_Case /\ last.mr # <<>>
    /\ last.mr[1].Worker = <<"w">> /\ last.mr[1].IssueID = <<"i", "/", "i">>

\* C14: for d >= 0 whole seconds passed, the label is d "s ago" when d < 60,
\* floor(d/60) "m ago" when 60 <= d < 3600, floor(d/3600) "h ago" when
\* 3600 <= d < 86400, floor(d/86400) "d ago" otherwise: floored, not rounded,
\* and 60, 3600 and 86400 fall in the larger unit.
IsFloor(n, d, unit) == n * unit <= d /\ d < (n + 1) * unit

C14_Case == last.op = "formatAge"

C14_AgeBuckets ==
    C14_Case =>
        LET d == last.age[1].d
            n == last.age[1].label.n
            unit == last.age[1].label.unit
        IN  /\ d < 60 => (unit = "s ago" /\ n = d)
            /\ (60 <= d /\ d < 3600) => (unit = "m ago" /\ IsFloor(n, d, 60))
            /\ (3600 <= d /\ d < 86400) => (unit = "h ago" /\ IsFloor(n, d, 3600))
            /\ 86400 <= d => (unit = "d ago" /\ IsFloor(n, d, 86400))

\* ninety minutes are "1h ago"
C14_Witness ==
    C14_Case /\ last.age[1].d = 5400 /\ last.age[1].label = [n |-> 1, unit |-> "h ago"]

\* C15: after a saveState of a record that returned no error, loadState
\* returns no error and a record equal to the saved one in every field,
\* optional fields set or not, whatever the file held before.
C15_Case == last.op = "saveState" /\ last.err = NoErr

C15_SaveLoadRoundTrip ==
    C15_Case =>
        LET ld == loadState(file, "ok", rig)
            saved == last.ref[1]
        IN  /\ ld.err = NoErr
            /\ ld.ref.RigName = saved.RigName /\ ld.ref.State = saved.State
            /\ ld.ref.PID = saved.PID /\ ld.ref.StartedAt = saved.StartedAt
            /\ ld.ref.CurrentMR = saved.CurrentMR
            /\ ld.ref.LastMergeAt = saved.LastMergeAt
            /\ ld.ref.Stats = saved.Stats

\* a record with nothing optional set was saved over one with everything set
C15_Witness ==
    /\ C15_Case
    /\ IsRecord(last.pre) /\ last.pre.rec.CurrentMR = <<FullMR>>
    /\ last.pre.rec.PID = 1 /\ last.pre.rec.StartedAt # <<>>
    /\ last.ref[1].CurrentMR = <<>> /\ last.ref[1].PID = 0
    /\ last.ref[1].StartedAt = <<>> /\ last.ref[1].LastMergeAt = <<>>
    /\ loadState(file, "ok", rig).ref = last.ref[1]

\* C16: a Stop that returned no error signalled the recorded PID exactly when
\* one is recorded (PID > 0) and it is not the caller's; it never signals its
\* caller, never signals when no PID is recorded, and signals at most one
\* process.
C16_Case == last.op = "Stop" /\ last.err = NoErr

C17_Case ==
    /\ last.op = "Queue" /\ last.fault = NoErr
    /\ LoadedFrom(last.pre).CurrentMR = <<>> /\ Accepted(last.branches) = <<>>

C17_EmptyQueueNoError ==
    /\ last.err # ErrNoQueue
    /\ C17_Case => (last.err = NoErr /\ last.items = <<>>)

\* nothing current, and the one name discovered was rejected
C17_Witness ==
    C17_Case /\ Len(last.branches) = 1 /\ last.err = NoErr /\ last.items = <<>>

\* C18: Status never writes a Stopped record over a Running record whose PID
\* names a process that exists at the moment of the write, also when another
\* process's Start comes between Status's load and its save.
LiveRunning(f) ==
    IsRecord(f) /\ f.rec.State = StateRunning /\ processExists(f.rec.PID, Alive)

C18_StatusKeepsLiveRecord ==
    [][\A p \in Procs :
          (StatusFinish(p) /\ LiveRunning(file))
              => ~(IsRecord(file') /\ file'.rec.State = StateStopped)]_vars

\* C19: a Start in which nothing fails, on a Running record whose PID names no
\* existing process or is 0, does not return ErrAlreadyRunning: it succeeds,
\* and the file holds a Running record with the caller's PID and the time of
\* this Start.
C19_Case ==
    /\ last.op = "Start" /\ last.fault = NoErr
    /\ IsRecord(last.pre) /\ last.pre.rec.State = StateRunning
    /\ (last.pre.rec.PID = 0 \/ ~processExists(last.pre.rec.PID, Alive))

C19_StartOverStaleRecord ==
    C19_Case =>
        /\ last.err = NoErr
        /\ IsRecord(file) /\ file.rec.State = StateRunning
        /\ file.rec.PID = last.pid /\ file.rec.StartedAt = <<now>>

\* the record of a process that is gone, started earlier, was taken over
C19_Witness ==
    /\ C19_Case /\ last.pre.rec.PID = GonePid
    /\ last.pre.rec.StartedAt = <<0>> /\ now > 0 /\ file.rec.StartedAt = <<now>>
    /\ file.rec.PID = last.pid

\* C20: a process is in run() after its Start only if the Start was a
\* foreground one and the file holds the Running record with its PID and the
\* time of the Start; a Start whose write failed returns that error and does
\* not reach run(); a background Start never reaches run(), and when it
\* returns no error the record is in the file.
C20_Case == last.op = "Start"

Persisted ==
    /\ IsRecord(file) /\ file.rec.State = StateRunning
    /\ file.rec.PID = last.pid /\ file.rec.StartedAt = <<now>>

C20_SavedBeforeRun ==
    C20_Case =>
        /\ pc[last.pid] = "run" => (last.fg /\ Persisted)
        /\ last.fault = ErrWrite => (last.err = ErrWrite /\ pc[last.pid] # "run")
        /\ ~last.fg => pc[last.pid] # "run"
        /\ (~last.fg /\ last.err = NoErr) => Persisted
        /\ (last.fg /\ last.fault = NoErr /\ last.err = NoErr) => pc[last.pid] = "run"

\* a foreground Start is in run(), its record in the file
C20_Witness ==
    C20_Case /\ last.fg /\ pc[last.pid] = "run" /\ Persisted /\ last.pre # file

\* C21: no step in which no write fails takes the record in the state file
\* into Paused, or takes a Paused record to another state: a Paused record
\* stays Paused.
IsPaused(f) == IsRecord(f) /\ f.rec.State = StatePaused

C21_PausedStaysPaused ==
    [][/\ (IsPaused(file) /\ last'.fault # ErrWrite) => IsPaused(file')
       /\ IsPaused(file') => IsPaused(file)]_vars

\* C22: in a step in which no write fails, the state file changes only by a
\* Start or a Stop that returns no error or by a Status on a Running record
\* whose PID > 0 names no existing process.  Queue, a Start that returns
\* ErrAlreadyRunning, a Stop that returns ErrNotRunning, a call whose load
\* fails, and a Status on any other record leave the file as it was; a
\* missing file stays missing.
Heals(f) ==
    /\ IsRecord(f) /\ f.rec.State = StateRunning
    /\ f.rec.PID > 0 /\ ~processExists(f.rec.PID, Alive)

MayChange(c, f) ==
    \/ c.op \in {"Start", "Stop"} /\ c.err = NoErr
    \/ c.op = "Status" /\ Heals(f)

MustKeep(c, f) ==
    \/ c.op = "Queue"
    \/ c.op = "Start" /\ c.err = ErrAlreadyRunning
    \/ c.op = "Stop" /\ c.err = ErrNotRunning
    \/ c.fault \in {ErrRead, ErrDecode}
    \/ c.op = "Status" /\ ~Heals(f)

NotOwned(ref) ==
    [CurrentMR |-> ref.CurrentMR, LastMergeAt |-> ref.LastMergeAt,
     Stats |-> ref.Stats, RigName |-> ref.RigName]

C23_OtherFieldsKept ==
    [][IsRecord(file') =>
          /\ NotOwned(file'.rec) = NotOwned(LoadedFrom(file))
          /\ last'.op # "Start" => file'.rec.StartedAt = LoadedFrom(file).StartedAt]_vars

\* a Start, and a Stop, wrote over a record that has a current merge request,
\* a last merge time and statistics
C23_Witness ==
    /\ last.op \in {"Start", "Stop"} /\ last.err = NoErr
    /\ IsRecord(last.pre) /\ last.pre.rec.CurrentMR # <<>>
    /\ last.pre.rec.Stats = SomeStats /\ last.pre.rec.LastMergeAt # <<>>
    /\ file # last.pre /\ NotOwned(file.rec) = NotOwned(last.pre.rec)

\* C24: a Stop that returns an error (ErrNotRunning, a failed load, a failed
\* write of the Stopped record) has signalled no process and has left the
\* state file as it was.
C24_FailedStopDoesNothing ==
    (last.op = "Stop" /\ last.err # NoErr) =>
        (last.signalled = {} /\ file = last.pre)

====
